---- MODULE Spec2Model ----
(***************************************************************************)
(* Cursor pagination of the IoT MCP server (src/src/iot-utils.ts).         *)
(*                                                                         *)
(* Text is a sequence of UTF-16 code units (integers).  JavaScript values  *)
(* are records tagged by the field t:                                      *)
(*   [t |-> "undef"]  [t |-> "null"]  [t |-> "bool", b]  [t |-> "str", s]  *)
(*   [t |-> "num", sign, int, frac]   (sign*int.frac in decimal)           *)
(*   [t |-> "arr", items]             [t |-> "obj", members]               *)
(* An object keeps its members in insertion order, as JSON.stringify and   *)
(* JSON.parse do.                                                          *)
(***************************************************************************)
EXTENDS Integers, Sequences, FiniteSets, TLC

\* ------------------------------------------------------------------ text

\* "pageNo", "pageSize", "productKey", "totalItems" as code units
K_pageNo == <<112, 97, 103, 101, 78, 111>>
K_pageSize == <<112, 97, 103, 101, 83, 105, 122, 101>>
K_productKey == <<112, 114, 111, 100, 117, 99, 116, 75, 101, 121>>
K_totalItems == <<116, 111, 116, 97, 108, 73, 116, 101, 109, 115>>

IsDigit(c) == c >= 48 /\ c <= 57

\* space, tab, line feed, carriage return: JSON whitespace
IsJsonWs(c) == c \in {32, 9, 10, 13}

\* space, tab, line feed, form feed, carriage return: ASCII whitespace (atob)
IsAsciiWs(c) == c \in {32, 9, 10, 12, 13}

RECURSIVE Digits(_)
\* decimal digits of a natural number
Digits(n) == IF n < 10 THEN <<48 + n>> ELSE Digits(n \div 10) \o <<48 + (n % 10)>>

RECURSIVE DigitsValue(_)
\* value of a non-empty sequence of decimal digits
DigitsValue(ds) ==
  IF Len(ds) = 0 THEN 0
  ELSE 10 * DigitsValue(SubSeq(ds, 1, Len(ds) - 1)) + (ds[Len(ds)] - 48)

RECURSIVE StripTrailingZeros(_)
StripTrailingZeros(ds) ==
  IF Len(ds) > 0 /\ ds[Len(ds)] = 48
  THEN StripTrailingZeros(SubSeq(ds, 1, Len(ds) - 1))
  ELSE ds

\* ------------------------------------------------------------ JS values

Undefined == [t |-> "undef"]
Null == [t |-> "null"]
Bool(b) == [t |-> "bool", b |-> b]
Str(s) == [t |-> "str", s |-> s]
Num(i) == [t |-> "num", sign |-> IF i < 0 THEN -1 ELSE 1,
           int |-> IF i < 0 THEN -i ELSE i, frac |-> <<>>]
Frac(sign, int, frac) ==
  [t |-> "num", sign |-> IF int = 0 /\ frac = <<>> THEN 1 ELSE sign,
   int |-> int, frac |-> frac]
Arr(items) == [t |-> "arr", items |-> items]
Obj(members) == [t |-> "obj", members |-> members]
Member(k, v) == [k |-> k, v |-> v]

\* the value the exception paths produce instead of a result
Throws == [t |-> "throw"]

\* the number NaN
NaN == [t |-> "nan"]

IsNum(v) == v.t = "num"
IsInteger(v) == v.t = "num" /\ v.frac = <<>>
IsPositiveInteger(v) == IsInteger(v) /\ v.sign = 1 /\ v.int >= 1
NumValue(v) == v.sign * v.int

RECURSIVE Lookup(_, _)
\* the value of the last member named k, as property access on a parsed object
Lookup(members, k) ==
  IF Len(members) = 0 THEN Undefined
  ELSE IF members[Len(members)].k = k THEN members[Len(members)].v
  ELSE Lookup(SubSeq(members, 1, Len(members) - 1), k)

HasMember(members, k) == \E i \in 1..Len(members) : members[i].k = k

\* v.k of JavaScript: a TypeError on null and undefined, undefined on the
\* other primitives and on arrays (for the names used here)
GetProp(v, k) ==
  IF v.t \in {"null", "undef"} THEN Throws
  ELSE IF v.t = "obj" THEN Lookup(v.members, k)
  ELSE Undefined

\* JavaScript truthiness
Truthy(v) ==
  CASE v.t \in {"undef", "null"} -> FALSE
    [] v.t = "bool" -> v.b
    [] v.t = "str" -> Len(v.s) > 0
    [] v.t = "num" -> ~(v.int = 0 /\ v.frac = <<>>)
    [] OTHER -> TRUE

\* ------------------------------------------------------- JSON.stringify

HexDigit(n) == IF n < 10 THEN 48 + n ELSE 87 + n

RECURSIVE QuoteChars(_)
\* the characters of a string literal: the quotation mark, the reverse solidus
\* and the control characters are escaped, other characters pass through
QuoteChars(s) ==
  IF Len(s) = 0 THEN <<>>
  ELSE (CASE Head(s) \in {34, 92} -> <<92, Head(s)>>
          [] Head(s) = 8 -> <<92, 98>>
          [] Head(s) = 9 -> <<92, 116>>
          [] Head(s) = 10 -> <<92, 110>>
          [] Head(s) = 12 -> <<92, 102>>
          [] Head(s) = 13 -> <<92, 114>>
          [] Head(s) < 32 /\ Head(s) \notin {8, 9, 10, 12, 13} ->
               <<92, 117, 48, 48, HexDigit(Head(s) \div 16), HexDigit(Head(s) % 16)>>
          [] OTHER -> <<Head(s)>>)
       \o QuoteChars(Tail(s))

Quote(s) == <<34>> \o QuoteChars(s) \o <<34>>

NumberToString(v) ==
  (IF v.sign < 0 THEN <<45>> ELSE <<>>) \o Digits(v.int)
  \o (IF v.frac = <<>> THEN <<>> ELSE <<46>> \o v.frac)

RECURSIVE JSONstringify(_)
RECURSIVE StringifyMembers(_, _)
RECURSIVE StringifyItems(_, _)

\* members whose value is undefined are left out
StringifyMembers(members, first) ==
  IF Len(members) = 0 THEN <<>>
  ELSE IF Head(members).v.t = "undef" THEN StringifyMembers(Tail(members), first)
  ELSE (IF first THEN <<>> ELSE <<44>>)
       \o Quote(Head(members).k) \o <<58>> \o JSONstringify(Head(members).v)
       \o StringifyMembers(Tail(members), FALSE)

\* an undefined array element is written as null
StringifyItems(items, first) ==
  IF Len(items) = 0 THEN <<>>
  ELSE (IF first THEN <<>> ELSE <<44>>)
       \o (IF Head(items).t = "undef" THEN <<110, 117, 108, 108>>
           ELSE JSONstringify(Head(items)))
       \o StringifyItems(Tail(items), FALSE)

JSONstringify(v) ==
  CASE v.t \in {"null", "nan"} -> <<110, 117, 108, 108>>
    [] v.t = "bool" -> IF v.b THEN <<116, 114, 117, 101>>
                       ELSE <<102, 97, 108, 115, 101>>
    [] v.t = "num" -> NumberToString(v)
    [] v.t = "str" -> Quote(v.s)
    [] v.t = "arr" -> <<91>> \o StringifyItems(v.items, TRUE) \o <<93>>
    [] v.t = "obj" -> <<123>> \o StringifyMembers(v.members, TRUE) \o <<125>>

\* ----------------------------------------------------------- JSON.parse

\* parse results: the value read and the index of the next unread character
Fail == [ok |-> FALSE, v |-> Throws, i |-> 0]
Done(v, i) == [ok |-> TRUE, v |-> v, i |-> i]

RECURSIVE SkipWs(_, _)
SkipWs(s, i) == IF i <= Len(s) /\ IsJsonWs(s[i]) THEN SkipWs(s, i + 1) ELSE i

RECURSIVE DigitRun(_, _)
\* index after the run of digits that starts at i
DigitRun(s, i) == IF i <= Len(s) /\ IsDigit(s[i]) THEN DigitRun(s, i + 1) ELSE i

RECURSIVE Zeros(_)
Zeros(n) == IF n <= 0 THEN <<>> ELSE <<48>> \o Zeros(n - 1)

\* the number with decimal digits ds and the decimal point after position p
Scaled(sign, ds, p) ==
  IF p >= Len(ds)
  THEN Frac(sign, DigitsValue(ds \o Zeros(p - Len(ds))), <<>>)
  ELSE IF p <= 0
  THEN Frac(IF StripTrailingZeros(ds) = <<>> THEN 1 ELSE sign, 0,
            StripTrailingZeros(Zeros(0 - p) \o ds))
  ELSE Frac(sign, DigitsValue(SubSeq(ds, 1, p)),
            StripTrailingZeros(SubSeq(ds, p + 1, Len(ds))))

\* -? (0 | [1-9][0-9]*) (. [0-9]+)? ([eE] [+-]? [0-9]+)?
ParseNumber(s, i0) ==
  LET neg == s[i0] = 45
      i1 == IF neg THEN i0 + 1 ELSE i0
      i2 == IF i1 <= Len(s) /\ s[i1] = 48 THEN i1 + 1 ELSE DigitRun(s, i1)
      hasFrac == i2 <= Len(s) /\ s[i2] = 46
      i3 == IF hasFrac THEN DigitRun(s, i2 + 1) ELSE i2
      hasExp == i3 <= Len(s) /\ s[i3] \in {101, 69}
      expNeg == hasExp /\ i3 + 1 <= Len(s) /\ s[i3 + 1] = 45
      e1 == IF hasExp /\ i3 + 1 <= Len(s) /\ s[i3 + 1] \in {43, 45}
            THEN i3 + 2 ELSE i3 + 1
      i4 == IF hasExp THEN DigitRun(s, e1) ELSE i3
      intDs == SubSeq(s, i1, i2 - 1)
      fracDs == IF hasFrac THEN SubSeq(s, i2 + 1, i3 - 1) ELSE <<>>
      expo == IF hasExp
              THEN (IF expNeg THEN -1 ELSE 1) * DigitsValue(SubSeq(s, e1, i4 - 1))
              ELSE 0
  IN IF i2 = i1 \/ (hasFrac /\ i3 = i2 + 1) \/ (hasExp /\ i4 = e1)
     THEN Fail
     ELSE Done(Scaled(IF neg THEN -1 ELSE 1, intDs \o fracDs, Len(intDs) + expo), i4)

HexValue(c) ==
  IF IsDigit(c) THEN c - 48
  ELSE IF c >= 97 /\ c <= 102 THEN c - 87
  ELSE IF c >= 65 /\ c <= 70 THEN c - 55
  ELSE -1

RECURSIVE ParseChars(_, _, _)
\* the characters of a string literal up to its closing quotation mark
ParseChars(s, i, acc) ==
  IF i > Len(s) \/ s[i] < 32 THEN Fail
  ELSE IF s[i] = 34 THEN Done(Str(acc), i + 1)
  ELSE IF s[i] # 92 THEN ParseChars(s, i + 1, Append(acc, s[i]))
  ELSE IF i + 1 > Len(s) THEN Fail
  ELSE IF s[i + 1] \in {34, 92, 47} THEN ParseChars(s, i + 2, Append(acc, s[i + 1]))
  ELSE IF s[i + 1] = 98 THEN ParseChars(s, i + 2, Append(acc, 8))
  ELSE IF s[i + 1] = 102 THEN ParseChars(s, i + 2, Append(acc, 12))
  ELSE IF s[i + 1] = 110 THEN ParseChars(s, i + 2, Append(acc, 10))
  ELSE IF s[i + 1] = 114 THEN ParseChars(s, i + 2, Append(acc, 13))
  ELSE IF s[i + 1] = 116 THEN ParseChars(s, i + 2, Append(acc, 9))
  ELSE IF s[i + 1] = 117 /\ i + 5 <= Len(s)
          /\ \A j \in 2..5 : HexValue(s[i + j]) >= 0
  THEN ParseChars(s, i + 6,
         Append(acc, 4096 * HexValue(s[i + 2]) + 256 * HexValue(s[i + 3])
                     + 16 * HexValue(s[i + 4]) + HexValue(s[i + 5])))
  ELSE Fail

StartsWith(s, i, w) == i + Len(w) - 1 <= Len(s) /\ SubSeq(s, i, i + Len(w) - 1) = w

\* a later member of the same name replaces the value and keeps the place
SetMember(members, k, v) ==
  IF HasMember(members, k)
  THEN [j \in 1..Len(members) |->
          IF members[j].k = k THEN Member(k, v) ELSE members[j]]
  ELSE Append(members, Member(k, v))

RECURSIVE ParseValue(_, _)
RECURSIVE ParseMembers(_, _, _)
RECURSIVE ParseItems(_, _, _)

\* after a member's value: } ends the object, a comma brings the next member
AfterMember(s, n, got) ==
  IF n > Len(s) THEN Fail
  ELSE IF s[n] = 125 THEN Done(Obj(got), n + 1)
  ELSE IF s[n] = 44 THEN ParseMembers(s, n + 1, got)
  ELSE Fail

MemberValue(s, k, val, acc) ==
  IF ~val.ok THEN Fail
  ELSE AfterMember(s, SkipWs(s, val.i), SetMember(acc, k, val.v))

\* after a member's name: a colon, then its value
AfterName(s, k, c, acc) ==
  IF c > Len(s) \/ s[c] # 58 THEN Fail
  ELSE MemberValue(s, k, ParseValue(s, c + 1), acc)

MemberName(s, key, acc) ==
  IF ~key.ok THEN Fail ELSE AfterName(s, key.v.s, SkipWs(s, key.i), acc)

MemberAt(s, i, acc) ==
  IF i > Len(s) \/ s[i] # 34 THEN Fail
  ELSE MemberName(s, ParseChars(s, i + 1, <<>>), acc)

\* "name" : value ( , "name" : value )* }   with i at the first name
ParseMembers(s, i, acc) == MemberAt(s, SkipWs(s, i), acc)

\* after an element: ] ends the array, a comma brings the next element
AfterItem(s, n, got) ==
  IF n > Len(s) THEN Fail
  ELSE IF s[n] = 93 THEN Done(Arr(got), n + 1)
  ELSE IF s[n] = 44 THEN ParseItems(s, n + 1, got)
  ELSE Fail

ItemValue(s, val, acc) ==
  IF ~val.ok THEN Fail ELSE AfterItem(s, SkipWs(s, val.i), Append(acc, val.v))

\* value ( , value )* ]   with i at the first value
ParseItems(s, i, acc) == ItemValue(s, ParseValue(s, i), acc)

ObjectAt(s, j) ==
  IF j <= Len(s) /\ s[j] = 125 THEN Done(Obj(<<>>), j + 1)
  ELSE ParseMembers(s, j, <<>>)

ArrayAt(s, j) ==
  IF j <= Len(s) /\ s[j] = 93 THEN Done(Arr(<<>>), j + 1)
  ELSE ParseItems(s, j, <<>>)

ValueAt(s, i) ==
  IF i > Len(s) THEN Fail
  ELSE IF s[i] = 123 THEN ObjectAt(s, SkipWs(s, i + 1))
  ELSE IF s[i] = 91 THEN ArrayAt(s, SkipWs(s, i + 1))
  ELSE IF s[i] = 34 THEN ParseChars(s, i + 1, <<>>)
  ELSE IF s[i] = 45 \/ IsDigit(s[i]) THEN ParseNumber(s, i)
  ELSE IF StartsWith(s, i, <<116, 114, 117, 101>>) THEN Done(Bool(TRUE), i + 4)
  ELSE IF StartsWith(s, i, <<102, 97, 108, 115, 101>>) THEN Done(Bool(FALSE), i + 5)
  ELSE IF StartsWith(s, i, <<110, 117, 108, 108>>) THEN Done(Null, i + 4)
  ELSE Fail

\* one JSON value, leading whitespace skipped
ParseValue(s, i) == ValueAt(s, SkipWs(s, i))

WholeText(s, r) == IF r.ok /\ SkipWs(s, r.i) > Len(s) THEN r.v ELSE Throws

\* JSON.parse: one value, then nothing but whitespace; Throws otherwise
JSONparse(s) == WholeText(s, ParseValue(s, 1))

\* ---------------------------------------------------------- btoa / atob

\* the character of the base64 alphabet with value n: A-Z a-z 0-9 + /
B64Char(n) ==
  IF n < 26 THEN 65 + n
  ELSE IF n < 52 THEN 97 + (n - 26)
  ELSE IF n < 62 THEN 48 + (n - 52)
  ELSE IF n = 62 THEN 43
  ELSE 47

\* the value of a character of the base64 alphabet, -1 for any other
B64Value(c) ==
  IF c >= 65 /\ c <= 90 THEN c - 65
  ELSE IF c >= 97 /\ c <= 122 THEN c - 97 + 26
  ELSE IF IsDigit(c) THEN c - 48 + 52
  ELSE IF c = 43 THEN 62
  ELSE IF c = 47 THEN 63
  ELSE -1

RECURSIVE B64Encode(_)
\* three bytes to four characters, the last group padded with =
B64Encode(b) ==
  IF Len(b) = 0 THEN <<>>
  ELSE IF Len(b) = 1
  THEN <<B64Char(b[1] \div 4), B64Char((b[1] % 4) * 16), 61, 61>>
  ELSE IF Len(b) = 2
  THEN <<B64Char(b[1] \div 4), B64Char((b[1] % 4) * 16 + b[2] \div 16),
         B64Char((b[2] % 16) * 4), 61>>
  ELSE <<B64Char(b[1] \div 4), B64Char((b[1] % 4) * 16 + b[2] \div 16),
         B64Char((b[2] % 16) * 4 + b[3] \div 64), B64Char(b[3] % 64)>>
       \o B64Encode(SubSeq(b, 4, Len(b)))

\* btoa: InvalidCharacterError on a code unit above 255
btoa(s) ==
  IF \E i \in 1..Len(s) : s[i] > 255 THEN Throws
  ELSE Str(B64Encode(s))

RECURSIVE B64Decode(_)
\* four characters to three bytes; a last group of two or three characters
\* gives one or two bytes, its spare bits dropped
B64Decode(c) ==
  IF Len(c) = 0 THEN <<>>
  ELSE IF Len(c) = 2
  THEN <<B64Value(c[1]) * 4 + B64Value(c[2]) \div 16>>
  ELSE IF Len(c) = 3
  THEN <<B64Value(c[1]) * 4 + B64Value(c[2]) \div 16,
         (B64Value(c[2]) % 16) * 16 + B64Value(c[3]) \div 4>>
  ELSE <<B64Value(c[1]) * 4 + B64Value(c[2]) \div 16,
         (B64Value(c[2]) % 16) * 16 + B64Value(c[3]) \div 4,
         (B64Value(c[3]) % 4) * 64 + B64Value(c[4])>>
       \o B64Decode(SubSeq(c, 5, Len(c)))

Unpadded(c) ==
  IF Len(c) > 0 /\ Len(c) % 4 = 0 /\ c[Len(c)] = 61
  THEN SubSeq(c, 1, Len(c) - (IF c[Len(c) - 1] = 61 THEN 2 ELSE 1))
  ELSE c

DecodeBody(body) ==
  IF Len(body) % 4 = 1 \/ \E i \in 1..Len(body) : B64Value(body[i]) < 0
  THEN Throws
  ELSE Str(B64Decode(body))

\* atob, the forgiving base64 decode: ASCII whitespace is removed, one or two
\* trailing = are removed from a length that is a multiple of four, and then a
\* length of 1 mod 4 or a character outside the alphabet is an error
atob(s) == DecodeBody(Unpadded(SelectSeq(s, LAMBDA c : ~IsAsciiWs(c))))

\* ------------------------------------------------------------ the codec

\* encodeCursor that writes the page number and the page size only
encodeCursor_pageOnly(cursor) ==
  btoa(JSONstringify(Obj(<<Member(K_pageNo, Lookup(cursor.members, K_pageNo)),
                           Member(K_pageSize, Lookup(cursor.members, K_pageSize))>>)))

\* export function encodeCursor(cursor): btoa(JSON.stringify(cursor));
\* the token as a string value, or Throws as btoa throws
encodeCursor(cursor) == btoa(JSONstringify(cursor))

\* export function decodeCursor(cursor): JSON.parse(atob(cursor)), every
\* exception replaced by Error('Invalid cursor format')
ParseDecoded(cursorStr) ==
  IF cursorStr.t = "throw" THEN Throws ELSE JSONparse(cursorStr.s)

decodeCursor(cursor) == ParseDecoded(atob(cursor))

\* ------------------------------------------- JavaScript string and sum

RECURSIVE PadLeft(_, _)
PadLeft(ds, n) == IF Len(ds) >= n THEN ds ELSE PadLeft(<<48>> \o ds, n)

RECURSIVE Pow10(_)
Pow10(k) == IF k = 0 THEN 1 ELSE 10 * Pow10(k - 1)

RECURSIVE TemplateString(_)
RECURSIVE JoinItems(_, _)

\* Array.prototype.join(","): null and undefined elements are empty
JoinItems(items, first) ==
  IF Len(items) = 0 THEN <<>>
  ELSE (IF first THEN <<>> ELSE <<44>>)
       \o (IF Head(items).t \in {"null", "undef"} THEN <<>>
           ELSE TemplateString(Head(items)))
       \o JoinItems(Tail(items), FALSE)

\* `${v}` : the string a template literal makes of a value
TemplateString(v) ==
  CASE v.t = "undef" -> <<117, 110, 100, 101, 102, 105, 110, 101, 100>>
    [] v.t = "null" -> <<110, 117, 108, 108>>
    [] v.t = "nan" -> <<78, 97, 78>>
    [] v.t = "bool" -> JSONstringify(v)
    [] v.t = "num" -> NumberToString(v)
    [] v.t = "str" -> v.s
    [] v.t = "arr" -> JoinItems(v.items, TRUE)
    [] v.t = "obj" -> <<91, 111, 98, 106, 101, 99, 116, 32, 79, 98, 106, 101, 99, 116, 93>>

\* v + 1 : a sum of numbers, or a concatenation when v is a string, an array
\* or an object
PlusOne(v) ==
  CASE v.t \in {"undef", "nan"} -> NaN
    [] v.t = "null" -> Num(1)
    [] v.t = "bool" -> IF v.b THEN Num(2) ELSE Num(1)
    [] v.t = "num" ->
         LET k == Len(v.frac)
             m == v.sign * (v.int * Pow10(k) + DigitsValue(v.frac)) + Pow10(k)
             a == IF m < 0 THEN -m ELSE m
         IN Frac(IF m < 0 THEN -1 ELSE 1, a \div Pow10(k),
                 IF k = 0 THEN <<>>
                 ELSE StripTrailingZeros(PadLeft(Digits(a % Pow10(k)), k)))
    [] OTHER -> Str(TemplateString(v) \o <<49>>)

\* a === b for a number b and any a
StrictEqualsNumber(a, n) == a.t = "num" /\ a = Num(n)

\* --------------------------------------------------------------- bounds

\* largest number of items in an upstream collection
MaxItems == 5
\* largest default page size a caller passes
MaxPageSize == 2
\* number of distinct tokens the login endpoint hands out
MaxTokens == 2
\* longest run of calls that redeem each other's cursor
MaxCalls == 6
\* largest pageNo and pageSize of the cursors given to the codec
MaxCursorNum == 2

\* tokenExpiry = Date.now() + 3600000
TokenTtl == 3600000

\* ---------------------------------------------------------------- state

VARIABLES
  N,            \* items in every upstream collection (unchanging)
  dps,          \* defaultPageSize the caller passes
  now,          \* Date.now()
  accessToken,  \* let accessToken: string | null = null
  tokenExpiry,  \* let tokenExpiry: number = 0
  issued,       \* tokens the login endpoint has handed out
  inv,          \* the invocations, one per caller
  held,         \* the nextCursor the caller got from its last call
  chain,        \* the run of calls that began without a cursor
  cx            \* the codec applied to one input: argument, token, result

vars == <<N, dps, now, accessToken, tokenExpiry, issued, inv, held, chain, cx>>

Procs == {1, 2}

Tools == {"products", "devices"}

\* product keys: "A", "B", and one with a character outside Latin-1
KeyA == <<65>>
KeyB == <<66>>
KeyWide == <<20135, 49>>
ProductKeys == {KeyA, KeyB, KeyWide}

NoResult == [status |-> "none", message |-> "", data |-> <<>>, nextCursor |-> Undefined]
Resolved(data, nextCursor) ==
  [status |-> "ok", message |-> "", data |-> data, nextCursor |-> nextCursor]
Rejected(message) ==
  [status |-> "error", message |-> message, data |-> <<>>, nextCursor |-> Undefined]

\* the listing that minted the cursor a call redeems, when the caller knows it
NoOrigin == [minted |-> FALSE, tool |-> "products", productKey |-> <<>>]
Origin(tool, productKey) == [minted |-> TRUE, tool |-> tool, productKey |-> productKey]

IdleInv ==
  [pc |-> "idle", tool |-> "products", productKey |-> <<>>, cursor |-> Undefined,
   pageNo |-> Undefined, pageSize |-> Undefined, token |-> Undefined,
   data |-> <<>>, result |-> NoResult, reqs |-> <<>>, primary |-> <<>>,
   lookahead |-> <<>>, logins |-> 0, inChain |-> FALSE, origin |-> NoOrigin]

NoHeld == [tok |-> Undefined, tool |-> "products", productKey |-> <<>>]

NoChain ==
  [live |-> FALSE, clean |-> TRUE, finished |-> FALSE, tool |-> "products",
   productKey |-> <<>>, calls |-> 0, got |-> <<>>, pages |-> <<>>, cursors |-> <<>>]

\* ------------------------------------------------------------- upstream

\* a decimal numeral of a positive integer
IsPositiveNumeral(tx) ==
  /\ Len(tx) > 0
  /\ \A i \in 1..Len(tx) : IsDigit(tx[i])
  /\ tx[1] # 48

Item(tool, productKey, idx) == <<tool, productKey, idx>>

\* the page the upstream holds for ?pageSize=..&pageNo=.. : items
\* (pageNo-1)*pageSize+1 .. pageNo*pageSize of the collection, none when a
\* parameter is no positive integer
UpstreamPage(tool, productKey, pageNoText, pageSizeText) ==
  IF ~(IsPositiveNumeral(pageNoText) /\ IsPositiveNumeral(pageSizeText)) THEN <<>>
  ELSE LET pn == DigitsValue(pageNoText)
           ps == DigitsValue(pageSizeText)
           first == (pn - 1) * ps + 1
           last == IF pn * ps < N THEN pn * ps ELSE N
       IN [i \in 1..(IF last >= first THEN last - first + 1 ELSE 0) |->
             Item(tool, productKey, first + i - 1)]

\* what a page request can come back with: a rejected fetch, a status that
\* is not OK (without a body, or with a body that holds the page), an
\* unreadable body, or a body {code, data} with or without data
Response(net, ok, json, code, hasData, data) ==
  [net |-> net, ok |-> ok, json |-> json, code |-> code, hasData |-> hasData,
   data |-> data]

AppCodes == {200, 500}

PageResponses(q) ==
  LET page == UpstreamPage(q.tool, q.productKey, q.pageNo, q.pageSize)
  IN {Response(TRUE, FALSE, FALSE, 0, FALSE, <<>>),
      Response(FALSE, FALSE, FALSE, 0, FALSE, <<>>),
      Response(FALSE, FALSE, TRUE, 200, TRUE, page),
      Response(FALSE, TRUE, FALSE, 0, FALSE, <<>>)}
     \cup {Response(FALSE, TRUE, TRUE, c, h, IF h THEN page ELSE <<>>) :
             c \in AppCodes, h \in BOOLEAN}

\* the answer of an upstream that works: code 200 and the page
WellBehaved(r) == ~r.net /\ r.ok /\ r.json /\ r.code = 200 /\ r.hasData

\* what the login request can come back with; token is access_token of the body
LoginResponse(net, ok, json, token) ==
  [net |-> net, ok |-> ok, json |-> json, token |-> token]

TokenText(n) == Str(<<84>> \o Digits(n))

LoginResponses ==
  {LoginResponse(TRUE, FALSE, FALSE, Undefined),
   LoginResponse(FALSE, FALSE, FALSE, Undefined),
   LoginResponse(FALSE, TRUE, FALSE, Undefined),
   LoginResponse(FALSE, TRUE, TRUE, Undefined),
   LoginResponse(FALSE, TRUE, TRUE, Str(<<>>))}
  \cup (IF issued < MaxTokens
        THEN {LoginResponse(FALSE, TRUE, TRUE, TokenText(issued + 1))}
        ELSE {})

\* ---------------------------------------------------------- the pagers

\* if (cursor): an absent cursor and the empty string are both skipped
CursorSupplied(cursor) == Truthy(cursor)

\* decodedCursor.productKey && decodedCursor.productKey !== productKey
ScopeMismatch(decodedCursor, productKey) ==
  LET pk == GetProp(decodedCursor, K_productKey)
  IN Truthy(pk) /\ ~(pk.t = "str" /\ pk.s = productKey)

\* what the try block that reads the cursor throws, "" when it throws
\* nothing: decodeCursor's error, the TypeError of reading a property of
\* null, or the mismatch of the devices listing
CursorThrown(tool, productKey, decodedCursor) ==
  IF decodedCursor.t = "throw" THEN "Invalid cursor format"
  ELSE IF decodedCursor.t = "null" THEN "TypeError"
  ELSE IF tool = "devices" /\ ScopeMismatch(decodedCursor, productKey)
  THEN "Product key mismatch with cursor"
  ELSE ""

\* catch (error) { throw new Error('Invalid cursor provided'); }
CursorCatch(thrown) == "Invalid cursor provided"

\* DecodedArgs with a cursor that does not decode taken as no cursor
DecodedArgs_fallback(tool, productKey, decodedCursor) ==
  IF decodedCursor.t = "throw"
  THEN [thrown |-> "", pageNo |-> Num(1), pageSize |-> Num(dps)]
  ELSE [thrown |-> CursorThrown(tool, productKey, decodedCursor),
        pageNo |-> GetProp(decodedCursor, K_pageNo),
        pageSize |-> GetProp(decodedCursor, K_pageSize)]

\* DecodedArgs with the page size left at the default
DecodedArgs_defaultSize(tool, productKey, decodedCursor) ==
  [thrown |-> CursorThrown(tool, productKey, decodedCursor),
   pageNo |-> GetProp(decodedCursor, K_pageNo),
   pageSize |-> Num(dps)]

\* pageNo = decodedCursor.pageNo; pageSize = decodedCursor.pageSize
DecodedArgs(tool, productKey, decodedCursor) ==
  [thrown |-> CursorThrown(tool, productKey, decodedCursor),
   pageNo |-> GetProp(decodedCursor, K_pageNo),
   pageSize |-> GetProp(decodedCursor, K_pageSize)]

\* pageNo and pageSize of the call: 1 and the default, or the cursor's
CursorArgs(tool, productKey, cursor, defaultPageSize) ==
  IF ~CursorSupplied(cursor)
  THEN [thrown |-> "", pageNo |-> Num(1), pageSize |-> Num(defaultPageSize)]
  ELSE DecodedArgs(tool, productKey, decodeCursor(cursor.s))

\* catch (error) { throw new Error('Failed to get paginated ... list'); }
FailMessage(tool) ==
  IF tool = "products" THEN "Failed to get paginated products list"
  ELSE "Failed to get paginated devices list"

\* CacheValid without the test of the expiry
CacheValid_noExpiry == Truthy(accessToken)

\* accessToken && Date.now() < tokenExpiry
CacheValid == Truthy(accessToken) /\ now < tokenExpiry

\* the login fetch rejects, or !response.ok, or response.json() rejects
LoginFails(r) == r.net \/ ~r.ok \/ ~r.json

\* the page request for ?pageSize=${pageSize}&pageNo=${pageNo}
PageRequest(kind, tool, productKey, pageNo, pageSize, token) ==
  [kind |-> kind, tool |-> tool, productKey |-> productKey,
   pageNo |-> TemplateString(pageNo), pageSize |-> TemplateString(pageSize),
   auth |-> token, at |-> now]

\* PrimaryFails without the test of response.ok
PrimaryFails_noStatus(tool, r) ==
  r.net \/ ~r.json \/ (tool = "products" /\ r.code # 200)

\* the primary fetch throws: a rejected fetch, !response.ok, an unreadable
\* body, and for products content.code !== 200
PrimaryFails(tool, r) ==
  r.net \/ ~r.ok \/ ~r.json \/ (tool = "products" /\ r.code # 200)

\* content.data || []
PageData(r) == IF r.hasData THEN r.data ELSE <<>>

\* IsFullPage as products.length <= pageSize
IsFullPage_atMost(data, pageSize) ==
  pageSize.t = "num" /\ pageSize.frac = <<>> /\ Len(data) <= NumValue(pageSize)

\* IsFullPage with the comparison never true
IsFullPage_never(data, pageSize) == FALSE

\* products.length === pageSize
IsFullPage(data, pageSize) == StrictEqualsNumber(pageSize, Len(data))

\* HasNextPage without the test of nextContent.data.length
HasNextPage_fullPageOnly(tool, r) ==
  /\ ~r.net /\ r.ok /\ r.json
  /\ tool = "products" => r.code = 200

\* nextResponse.ok, and nextContent.data && nextContent.data.length > 0,
\* and for products nextContent.code === 200
HasNextPage(tool, r) ==
  /\ ~r.net /\ r.ok /\ r.json
  /\ tool = "products" => r.code = 200
  /\ r.hasData /\ Len(r.data) > 0

\* the cursor object handed to encodeCursor
NextCursorValue(tool, productKey, pageNo, pageSize) ==
  Obj(<<Member(K_pageNo, PlusOne(pageNo)), Member(K_pageSize, pageSize)>>
      \o (IF tool = "devices" THEN <<Member(K_productKey, Str(productKey))>>
          ELSE <<>>))

\* catch (error) { /* Ignore errors when checking next page */ }
Swallow(v) == IF v.t = "throw" THEN Undefined ELSE v

\* nextCursor after the lookahead: the token, or undefined when there is no
\* next page or when encodeCursor throws inside the try
NextCursor(tool, productKey, pageNo, pageSize, r) ==
  IF ~HasNextPage(tool, r) THEN Undefined
  ELSE Swallow(encodeCursor(NextCursorValue(tool, productKey, pageNo, pageSize)))

\* LookaheadResult with the lookahead's error thrown to the outer catch
LookaheadResult_propagate(tool, productKey, pageNo, pageSize, data, r) ==
  IF r.net \/ ~r.ok \/ ~r.json
  THEN Rejected(FailMessage(tool))
  ELSE Resolved(data, NextCursor(tool, productKey, pageNo, pageSize, r))

\* LookaheadResult with the lookahead's items appended to the page
LookaheadResult_merge(tool, productKey, pageNo, pageSize, data, r) ==
  Resolved(data \o r.data, NextCursor(tool, productKey, pageNo, pageSize, r))

\* return { data: products, nextCursor } after the lookahead
LookaheadResult(tool, productKey, pageNo, pageSize, data, r) ==
  Resolved(data, NextCursor(tool, productKey, pageNo, pageSize, r))

\* ------------------------------------------------------------- actions

Finish(p, result) ==
  inv' = [inv EXCEPT ![p].pc = "done", ![p].result = result]

Soil(p, isClean) ==
  chain' = IF inv[p].inChain THEN [chain EXCEPT !.clean = @ /\ isClean] ELSE chain

\* Started with pageSize kept in a variable of the module, which the other
\* invocation has overwritten while it runs
Started_shared(tool, productKey, cursor, origin, inChain, a) ==
  [IdleInv EXCEPT !.tool = tool, !.productKey = productKey, !.cursor = cursor,
                  !.origin = origin, !.inChain = inChain,
                  !.pageNo = a.pageNo,
                  !.pageSize = IF \E q \in Procs : inv[q].pageSize.t = "num"
                               THEN inv[CHOOSE q \in Procs :
                                          inv[q].pageSize.t = "num"].pageSize
                               ELSE a.pageSize]

Started(tool, productKey, cursor, origin, inChain, a) ==
  [IdleInv EXCEPT !.tool = tool, !.productKey = productKey, !.cursor = cursor,
                  !.origin = origin, !.inChain = inChain,
                  !.pageNo = a.pageNo, !.pageSize = a.pageSize]

\* Begun with a caller that finds a login request in flight going on with
\* the token of the cache as it is, instead of sending a request of its own
Begun_inFlight(base, thrown) ==
  IF thrown # ""
  THEN [base EXCEPT !.pc = "done", !.result = Rejected(CursorCatch(thrown)),
                    !.pageNo = Undefined, !.pageSize = Undefined]
  ELSE IF CacheValid \/ \E q \in Procs : inv[q].pc = "login"
  THEN [base EXCEPT !.pc = "primary", !.token = accessToken,
          !.reqs = <<PageRequest("primary", base.tool, base.productKey,
                                 base.pageNo, base.pageSize, accessToken)>>]
  ELSE [base EXCEPT !.pc = "login", !.logins = 1]

\* Begun with getAccessToken called before the cursor is read
Begun_loginFirst(base, thrown) ==
  IF thrown # ""
  THEN [base EXCEPT !.pc = "done", !.result = Rejected(CursorCatch(thrown)),
                    !.pageNo = Undefined, !.pageSize = Undefined,
                    !.logins = IF CacheValid THEN 0 ELSE 1]
  ELSE IF CacheValid
  THEN [base EXCEPT !.pc = "primary", !.token = accessToken,
          !.reqs = <<PageRequest("primary", base.tool, base.productKey,
                                 base.pageNo, base.pageSize, accessToken)>>]
  ELSE [base EXCEPT !.pc = "login", !.logins = 1]

\* the invocation once its synchronous start is over: rejected for its
\* cursor, or waiting for the primary fetch (the cached token is still
\* valid), or waiting for the login request
Begun(base, thrown) ==
  IF thrown # ""
  THEN [base EXCEPT !.pc = "done", !.result = Rejected(CursorCatch(thrown)),
                    !.pageNo = Undefined, !.pageSize = Undefined]
  ELSE IF CacheValid
  THEN [base EXCEPT !.pc = "primary", !.token = accessToken,
          !.reqs = <<PageRequest("primary", base.tool, base.productKey,
                                 base.pageNo, base.pageSize, accessToken)>>]
  ELSE [base EXCEPT !.pc = "login", !.logins = 1]

Begin(tool, productKey, cursor, origin, inChain, a) ==
  Begun(Started(tool, productKey, cursor, origin, inChain, a), a.thrown)

\* listProductsPaginated / listDevicesPaginated up to the first await that
\* waits for the network
Enter(p, tool, productKey, cursor, origin, inChain) ==
  /\ inv[p].pc = "idle"
  /\ inv' = [inv EXCEPT ![p] =
       Begin(tool, productKey, cursor, origin, inChain,
             CursorArgs(tool, productKey, cursor, dps))]
  /\ UNCHANGED <<cx, N, dps, now, accessToken, tokenExpiry, issued>>

ScopeOf(tool, productKey) == IF tool = "products" THEN <<>> ELSE productKey

HeldOrigin == Origin(held.tool, held.productKey)

\* a call without a cursor: the first call of a run
CallFresh(p, tool, productKey) ==
  /\ Enter(p, tool, ScopeOf(tool, productKey), Undefined, NoOrigin, TRUE)
  /\ chain' = [NoChain EXCEPT !.live = TRUE, !.tool = tool,
                              !.productKey = ScopeOf(tool, productKey)]
  /\ held' = NoHeld

\* the next call of the run: it redeems the cursor the last call returned
CallNext(p) ==
  /\ chain.live /\ ~chain.finished /\ chain.calls < MaxCalls
  /\ held.tok.t = "str"
  /\ Enter(p, chain.tool, chain.productKey, held.tok, HeldOrigin, TRUE)
  /\ UNCHANGED <<chain, held>>

\* a call outside a run, with any cursor string against any listing
CallWith(p, tool, productKey, cursor) ==
  /\ Enter(p, tool, ScopeOf(tool, productKey), cursor, NoOrigin, FALSE)
  /\ chain' = NoChain
  /\ held' = NoHeld

\* a call outside a run that redeems the cursor the last call returned
\* against any listing
CallHeld(p, tool, productKey) ==
  /\ held.tok.t = "str"
  /\ Enter(p, tool, ScopeOf(tool, productKey), held.tok, HeldOrigin, FALSE)
  /\ chain' = NoChain
  /\ held' = NoHeld

\* LoginReturns without the test of the token: the pager goes on to its
\* primary fetch with whatever access_token was
LoginReturns_proceed(p, r) ==
  /\ inv[p].pc = "login"
  /\ IF LoginFails(r)
     THEN /\ Finish(p, Rejected(FailMessage(inv[p].tool)))
          /\ UNCHANGED <<accessToken, tokenExpiry, issued>>
     ELSE /\ accessToken' = r.token
          /\ tokenExpiry' = now + TokenTtl
          /\ issued' = IF Truthy(r.token) THEN issued + 1 ELSE issued
          /\ inv' = [inv EXCEPT ![p].pc = "primary", ![p].token = r.token,
               ![p].reqs = <<PageRequest("primary", inv[p].tool,
                  inv[p].productKey, inv[p].pageNo, inv[p].pageSize, r.token)>>]
  /\ Soil(p, ~LoginFails(r) /\ Truthy(r.token))
  /\ UNCHANGED <<cx, N, dps, now, held>>

\* getAccessToken after its login request came back, and on success the
\* primary fetch the pager issues next
LoginReturns(p, r) ==
  /\ inv[p].pc = "login"
  /\ IF LoginFails(r)
     THEN /\ Finish(p, Rejected(FailMessage(inv[p].tool)))
          /\ UNCHANGED <<accessToken, tokenExpiry, issued>>
     ELSE /\ accessToken' = r.token
          /\ IF ~Truthy(r.token)
             THEN /\ Finish(p, Rejected(FailMessage(inv[p].tool)))
                  /\ UNCHANGED <<tokenExpiry, issued>>
             ELSE /\ tokenExpiry' = now + TokenTtl
                  /\ issued' = issued + 1
                  /\ inv' = [inv EXCEPT ![p].pc = "primary", ![p].token = r.token,
                       ![p].reqs = <<PageRequest("primary", inv[p].tool,
                          inv[p].productKey, inv[p].pageNo, inv[p].pageSize, r.token)>>]
  /\ Soil(p, ~LoginFails(r) /\ Truthy(r.token))
  /\ UNCHANGED <<cx, N, dps, now, held>>

\* the pager after its primary fetch came back
PrimaryReturns(p, r) ==
  LET c == inv[p]
  IN /\ c.pc = "primary"
     /\ IF PrimaryFails(c.tool, r)
        THEN inv' = [inv EXCEPT ![p].pc = "done", ![p].primary = <<r>>,
                                ![p].result = Rejected(FailMessage(c.tool))]
        ELSE IF IsFullPage(PageData(r), c.pageSize)
        THEN inv' = [inv EXCEPT ![p].pc = "lookahead", ![p].primary = <<r>>,
                       ![p].data = PageData(r),
                       ![p].reqs = Append(@, PageRequest("lookahead", c.tool,
                          c.productKey, PlusOne(c.pageNo), c.pageSize, c.token))]
        ELSE inv' = [inv EXCEPT ![p].pc = "done", ![p].primary = <<r>>,
                       ![p].data = PageData(r),
                       ![p].result = Resolved(PageData(r), Undefined)]
     /\ Soil(p, WellBehaved(r))
     /\ UNCHANGED <<cx, N, dps, now, accessToken, tokenExpiry, issued, held>>

\* LookaheadReturns with a failed lookahead awaited again and never settled
LookaheadReturns_hang(p, r) ==
  LET c == inv[p]
  IN /\ c.pc = "lookahead"
     /\ IF r.net \/ ~r.ok \/ ~r.json
        THEN inv' = [inv EXCEPT ![p].pc = "stuck", ![p].lookahead = <<r>>]
        ELSE inv' = [inv EXCEPT ![p].pc = "done", ![p].lookahead = <<r>>,
                       ![p].result = LookaheadResult(c.tool, c.productKey, c.pageNo,
                                                     c.pageSize, c.data, r)]
     /\ Soil(p, WellBehaved(r))
     /\ UNCHANGED <<cx, N, dps, now, accessToken, tokenExpiry, issued, held>>

\* the pager after its lookahead fetch came back
LookaheadReturns(p, r) ==
  LET c == inv[p]
  IN /\ c.pc = "lookahead"
     /\ inv' = [inv EXCEPT ![p].pc = "done", ![p].lookahead = <<r>>,
                  ![p].result = LookaheadResult(c.tool, c.productKey, c.pageNo,
                                                c.pageSize, c.data, r)]
     /\ Soil(p, WellBehaved(r))
     /\ UNCHANGED <<cx, N, dps, now, accessToken, tokenExpiry, issued, held>>

\* what a tool handler returns: the parts of its text, the records it lists,
\* the nextCursor field when there is one; threw says that the handler
\* rejected instead
Response3(text, records, nextCursor) ==
  [threw |-> FALSE, text |-> text, records |-> records, nextCursor |-> nextCursor]

\* catch (error) { return { content: [{ text: `Error: ${error.message}` }] } }
ErrorResponse(message) == Response3(<<"Error: ", message>>, <<>>, Undefined)

\* if (!result.data || result.data.length === 0)
EmptyResponse(tool) ==
  Response3(IF tool = "products" THEN <<"No products found in your account.">>
            ELSE <<"No devices found for product key: ">>, <<>>, Undefined)

\* the list of records, the line about more records or the end of the list,
\* and ...(result.nextCursor ? { nextCursor: result.nextCursor } : {})
ListResponse(tool, result) ==
  Response3(IF Truthy(result.nextCursor)
            THEN <<"page results: ", "Use cursor: ", result.nextCursor.s>>
            ELSE <<"page results: ", "End of list.">>,
            result.data,
            IF Truthy(result.nextCursor) THEN result.nextCursor ELSE Undefined)

\* ToolResponse with the pager's error thrown on to the caller of the tool
ToolResponse_rethrow(tool, result) ==
  IF result.status = "error"
  THEN [threw |-> TRUE, text |-> <<>>, records |-> <<>>, nextCursor |-> Undefined]
  ELSE IF Len(result.data) = 0 THEN EmptyResponse(tool)
  ELSE ListResponse(tool, result)

\* ToolResponse with the cursor named in the text only
ToolResponse_textOnly(tool, result) ==
  IF result.status = "error" THEN ErrorResponse(result.message)
  ELSE IF Len(result.data) = 0 THEN EmptyResponse(tool)
  ELSE [ListResponse(tool, result) EXCEPT !.nextCursor = Undefined]

\* the handler of list_products_paginated / list_devices_paginated on the
\* outcome of the pager
ToolResponse(tool, result) ==
  IF result.status = "error" THEN ErrorResponse(result.message)
  ELSE IF Len(result.data) = 0 THEN EmptyResponse(tool)
  ELSE ListResponse(tool, result)

\* the caller takes the result: it keeps the nextCursor, if there is one
Return(p) ==
  LET c == inv[p]
      more == ToolResponse(c.tool, c.result).nextCursor.t = "str"
  IN /\ c.pc = "done"
     /\ inv' = [inv EXCEPT ![p] = IdleInv]
     /\ held' = IF more /\ c.inChain
                THEN [tok |-> c.result.nextCursor, tool |-> c.tool,
                      productKey |-> c.productKey]
                ELSE NoHeld
     /\ chain' = IF c.inChain
                 THEN [chain EXCEPT !.calls = @ + 1,
                         !.got = @ \o c.result.data,
                         !.pages = @ \o (IF Len(c.reqs) > 0 THEN <<c.reqs[1].pageNo>>
                                         ELSE <<>>),
                         !.cursors = Append(@, more),
                         !.finished = ~more]
                 ELSE chain
     /\ UNCHANGED <<cx, N, dps, now, accessToken, tokenExpiry, issued>>

\* ---------------------------------------------------- the caller's cursors

Cursor2(pageNo, pageSize) ==
  Obj(<<Member(K_pageNo, pageNo), Member(K_pageSize, pageSize)>>)
Cursor3(pageNo, pageSize, productKey) ==
  Obj(<<Member(K_pageNo, pageNo), Member(K_pageSize, pageSize),
        Member(K_productKey, productKey)>>)

\* strings that are no token of the codec
JunkTokens ==
  {Str(<<>>),                                  \* the empty string
   Str(<<33>>),                                \* "!" : not base64
   Str(<<65>>),                                \* "A" : one character short
   btoa(<<104, 105>>),                         \* base64 of "hi"
   btoa(<<123, 34, 112, 97, 103, 101>>)}       \* base64 of a cut-off object

\* tokens of JSON texts that are no valid cursor
MalformedTokens ==
  {btoa(JSONstringify(v)) :
     v \in {Null, Num(5), Arr(<<>>), Obj(<<>>),
            Obj(<<Member(K_pageNo, Num(2))>>),
            Obj(<<Member(K_pageSize, Num(2))>>),
            Cursor2(Num(0), Num(2)),
            Cursor2(Num(-1), Num(2)),
            Cursor2(Num(2), Num(0)),
            Cursor2(Frac(1, 1, <<53>>), Num(2)),
            Cursor2(Str(<<50>>), Num(2))}}

\* tokens of valid cursors
ValidTokens ==
  {encodeCursor(v) :
     v \in {Cursor2(Num(2), Num(1)),
            Cursor2(Num(2), Num(2)),
            Cursor3(Num(2), Num(2), Str(KeyA)),
            Cursor3(Num(1), Num(2), Str(KeyB))}}

CallerTokens == JunkTokens \cup MalformedTokens \cup ValidTokens

\* ------------------------------------------------- the codec on its own

NoCodec == [op |-> "none", arg |-> Undefined, tok |-> Undefined, out |-> Undefined]

\* cursors: pageNo, pageSize, then productKey and totalItems when present
CursorOf(pageNo, pageSize, productKey, totalItems) ==
  Obj(<<Member(K_pageNo, pageNo), Member(K_pageSize, pageSize)>>
      \o (IF productKey.t = "undef" THEN <<>>
          ELSE <<Member(K_productKey, productKey)>>)
      \o (IF totalItems.t = "undef" THEN <<>>
          ELSE <<Member(K_totalItems, totalItems)>>))

\* the same members set in the opposite order
Reversed(v) == Obj([i \in 1..Len(v.members) |-> v.members[Len(v.members) + 1 - i]])

\* product keys a cursor may carry: none, "", "A", a key with a quotation
\* mark, a key with a character outside Latin-1
CodecKeys == {Undefined, Str(<<>>), Str(KeyA), Str(<<65, 34>>), Str(KeyWide)}

CodecTotals == {Undefined, Num(0), Num(7), Num(-3)}

CodecCursors ==
  {CursorOf(Num(pn), Num(ps), k, tt) :
     pn \in 1..MaxCursorNum, ps \in 1..MaxCursorNum, k \in CodecKeys,
     tt \in CodecTotals}

CodecArgs == CodecCursors \cup {Reversed(v) : v \in CodecCursors}

InitCodec ==
  /\ N = 0
  /\ dps = 1
  /\ now = TokenTtl
  /\ accessToken = Null
  /\ tokenExpiry = 0
  /\ issued = 0
  /\ inv = [p \in Procs |-> IdleInv]
  /\ held = NoHeld
  /\ chain = NoChain
  /\ cx \in {[NoCodec EXCEPT !.arg = v] : v \in CodecArgs}
           \cup {[NoCodec EXCEPT !.tok = tk] : tk \in CallerTokens}

\* encodeCursor(arg)
Encode ==
  /\ cx.op = "none" /\ cx.arg.t = "obj"
  /\ cx' = [cx EXCEPT !.op = "encoded", !.tok = encodeCursor(cx.arg)]
  /\ UNCHANGED <<N, dps, now, accessToken, tokenExpiry, issued, inv, held, chain>>

\* decodeCursor(tok) for the token encodeCursor returned
DecodeBack ==
  /\ cx.op = "encoded" /\ cx.tok.t = "str"
  /\ cx' = [cx EXCEPT !.op = "decoded", !.out = decodeCursor(cx.tok.s)]
  /\ UNCHANGED <<N, dps, now, accessToken, tokenExpiry, issued, inv, held, chain>>

\* decodeCursor(tok) for a string of the caller
Decode ==
  /\ cx.op = "none" /\ cx.tok.t = "str"
  /\ cx' = [cx EXCEPT !.op = "decoded", !.out = decodeCursor(cx.tok.s)]
  /\ UNCHANGED <<N, dps, now, accessToken, tokenExpiry, issued, inv, held, chain>>

NextCodec == Encode \/ DecodeBack \/ Decode

SpecCodec == InitCodec /\ [][NextCodec]_vars

\* ------------------------------------------------------- specification

Init ==
  /\ N \in 0..MaxItems
  /\ dps \in 1..MaxPageSize
  /\ now = TokenTtl
  /\ accessToken = Null
  /\ tokenExpiry = 0
  /\ issued = 0
  /\ inv = [p \in Procs |-> IdleInv]
  /\ held = NoHeld
  /\ chain = NoChain
  /\ cx = NoCodec

\* the answers the upstream can give to the page request p waits for
PendingResponses(p, pc) ==
  IF inv[p].pc = pc THEN PageResponses(inv[p].reqs[Len(inv[p].reqs)]) ELSE {}

\* one caller, one invocation at a time
Next ==
  \/ \E tool \in Tools, k \in ProductKeys : CallFresh(1, tool, k)
  \/ CallNext(1)
  \/ \E tool \in Tools, k \in ProductKeys, c \in CallerTokens :
       CallWith(1, tool, k, c)
  \/ \E tool \in Tools, k \in ProductKeys : CallHeld(1, tool, k)
  \/ \E r \in LoginResponses : LoginReturns(1, r)
  \/ \E r \in PendingResponses(1, "primary") : PrimaryReturns(1, r)
  \/ \E r \in PendingResponses(1, "lookahead") : LookaheadReturns(1, r)
  \/ Return(1)

Spec == Init /\ [][Next]_vars

\* ------------------------------------------------- the listings and time

\* ticks of the clock in one behaviour
MaxTicks == 3

\* Date.now() moves on by half the life of a cached token
TickStep == TokenTtl \div 2

\* time passes: between two calls, or while a request is in flight
Tick ==
  /\ now < TokenTtl + MaxTicks * TickStep
  /\ now' = now + TickStep
  /\ UNCHANGED <<N, dps, accessToken, tokenExpiry, issued, inv, held, chain, cx>>

\* one caller running the listings from the first page on, and the clock
NextClock ==
  \/ \E tool \in Tools, k \in {KeyA} : CallFresh(1, tool, k)
  \/ CallNext(1)
  \/ \E r \in LoginResponses : LoginReturns(1, r)
  \/ \E r \in PendingResponses(1, "primary") : PrimaryReturns(1, r)
  \/ \E r \in PendingResponses(1, "lookahead") : LookaheadReturns(1, r)
  \/ Return(1)
  \/ Tick

SpecClock == Init /\ [][NextClock]_vars

\* ------------------------------------------------ two concurrent callers

\* the cursors of the concurrent callers: none, or page 2 of product "A"
PairCursors == {Undefined, encodeCursor(Cursor3(Num(2), Num(1), Str(KeyA)))}

\* the upstream the concurrent callers meet: a request is answered with
\* code 200 and the page, or its fetch is rejected
PairResponses(p, pc) == {r \in PendingResponses(p, pc) : r.net \/ WellBehaved(r)}

PairLogins == {r \in LoginResponses : r.net \/ Truthy(r.token)}

\* two callers, their invocations interleaved at every await
NextPair ==
  \E p \in Procs :
    \/ \E tool \in Tools, k \in {KeyA}, c \in PairCursors :
         CallWith(p, tool, k, c)
    \/ \E r \in PairLogins : LoginReturns(p, r)
    \/ \E r \in PairResponses(p, "primary") : PrimaryReturns(p, r)
    \/ \E r \in PairResponses(p, "lookahead") : LookaheadReturns(p, r)
    \/ Return(p)

SpecPair == Init /\ [][NextPair]_vars

\* ------------------------------------------ every request is answered

\* the login request, the primary fetch and the lookahead fetch of the
\* caller each come back, with an answer or with a failure
LoginAnswered == \E r \in LoginResponses : LoginReturns(1, r)
PrimaryAnswered == \E r \in PendingResponses(1, "primary") : PrimaryReturns(1, r)
LookaheadAnswered ==
  \E r \in PendingResponses(1, "lookahead") : LookaheadReturns(1, r)

\* one caller running the listings from the first page on
NextLive ==
  \/ \E tool \in Tools, k \in {KeyA, KeyWide} : CallFresh(1, tool, k)
  \/ CallNext(1)
  \/ LoginAnswered
  \/ PrimaryAnswered
  \/ LookaheadAnswered
  \/ Return(1)

SpecLive ==
  /\ Init /\ [][NextLive]_vars
  /\ WF_vars(LoginAnswered)
  /\ WF_vars(PrimaryAnswered)
  /\ WF_vars(LookaheadAnswered)

\* ----------------------------------------------------------- properties

\* the request got no usable answer: the fetch was rejected, the status was
\* not OK, or the body could not be read
TransportFailed(r) == r.net \/ ~r.ok \/ ~r.json

\* the upstream answered with its success code
Answered200(r) == ~TransportFailed(r) /\ r.code = 200

HasNext(c) == c.result.nextCursor.t = "str"

SameValue(x, y) == x.t = y.t /\ x = y

InvalidCursorMessage == "Invalid cursor provided"

FetchMessages ==
  {"Failed to get paginated products list", "Failed to get paginated devices list"}

\* the call was turned down for its cursor, before any request
RejectedForCursor(c) ==
  /\ c.pc = "done"
  /\ c.result.status = "error"
  /\ c.result.message = InvalidCursorMessage
  /\ c.result.data = <<>>
  /\ c.reqs = <<>>
  /\ c.logins = 0

\* the cursor a finished call returned names the page after the one fetched,
\* the same page size, and the scope of the call
SuccessorOf(c) ==
  LET d == decodeCursor(c.result.nextCursor.s)
  IN /\ d.t = "obj"
     /\ c.pageNo.t = "num"
     /\ SameValue(GetProp(d, K_pageNo), Num(NumValue(c.pageNo) + 1))
     /\ SameValue(GetProp(d, K_pageSize), c.pageSize)
     /\ IF c.tool = "devices"
        THEN SameValue(GetProp(d, K_productKey), Str(c.productKey))
        ELSE ~HasMember(d.members, K_productKey)

\* the lookahead of a finished call came back with the success code and at
\* least one item
LookaheadFoundItems(c) ==
  /\ Len(c.lookahead) = 1
  /\ Answered200(c.lookahead[1])
  /\ Len(c.lookahead[1].data) >= 1

\* C1: a successful call of a run (no cursor, or the cursor of the call before)
\* returns a nextCursor exactly when the primary page holds pageSize items and
\* the lookahead succeeds with at least one item; the cursor then decodes to
\* the next page, the same page size and the scope of the call.
ClaimC1 ==
  \A p \in Procs :
    LET c == inv[p]
    IN c.pc = "done" /\ c.inChain /\ c.result.status = "ok" =>
         /\ HasNext(c) <=>
              /\ c.pageSize.t = "num"
              /\ Len(c.primary[1].data) = NumValue(c.pageSize)
              /\ LookaheadFoundItems(c)
         /\ HasNext(c) => SuccessorOf(c)

\* C2: when the primary fetch succeeded and the lookahead fetch failed (a
\* rejected fetch, a status that is not OK, an unreadable body), the call
\* succeeds with the items of the primary page and no nextCursor.
TheoremC2 ==
  \A p \in Procs :
    LET c == inv[p]
    IN /\ c.pc = "done"
       /\ Len(c.primary) = 1 /\ ~TransportFailed(c.primary[1])
       /\ Len(c.lookahead) = 1 /\ TransportFailed(c.lookahead[1])
       => /\ c.result.status = "ok"
          /\ c.result.data = c.primary[1].data
          /\ c.result.nextCursor.t = "undef"

WitnessC2 ==
  \E p \in Procs :
    LET c == inv[p]
    IN /\ c.pc = "done"
       /\ Len(c.primary) = 1 /\ Answered200(c.primary[1])
       /\ Len(c.primary[1].data) >= 1
       /\ Len(c.lookahead) = 1 /\ c.lookahead[1].net
       /\ c.result.status = "ok"

PrimaryRequests(c) == {i \in 1..Len(c.reqs) : c.reqs[i].kind = "primary"}

\* C3: when the primary fetch fails (a rejected fetch, a status that is not
\* OK, an unreadable body) or the login before it fails, the call fails with
\* the fetch error and no page; after a failed primary fetch the call has
\* issued that one request and no lookahead, after a failed login none; no
\* call issues a second primary request or logs in twice.
TheoremC3 ==
  \A p \in Procs :
    LET c == inv[p]
    IN /\ Cardinality(PrimaryRequests(c)) <= 1
       /\ c.logins <= 1
       /\ Len(c.primary) = 1 /\ TransportFailed(c.primary[1]) =>
            /\ c.pc = "done"
            /\ c.result.status = "error"
            /\ c.result.message \in FetchMessages
            /\ c.result.message # InvalidCursorMessage
            /\ c.result.data = <<>>
            /\ c.result.nextCursor.t = "undef"
            /\ Len(c.reqs) = 1
            /\ c.lookahead = <<>>
       /\ c.pc = "done" /\ c.logins = 1 /\ c.reqs = <<>> =>
            /\ c.result.status = "error"
            /\ c.result.message \in FetchMessages
            /\ c.result.data = <<>>
            /\ c.result.nextCursor.t = "undef"

WitnessC3 ==
  \E p \in Procs :
    LET c == inv[p]
    IN /\ c.pc = "done"
       /\ Len(c.primary) = 1 /\ ~c.primary[1].ok /\ c.primary[1].json
       /\ Len(c.primary[1].data) >= 1
       /\ c.result.status = "error"

\* C4: a cursor minted by the devices listing for product A is turned down
\* when redeemed for another product B, with an error other than the
\* invalid-cursor error, and is accepted when redeemed for A.
ClaimC4 ==
  \A p \in Procs :
    LET c == inv[p]
    IN c.pc = "done" /\ c.origin.minted /\ c.origin.tool = "devices"
       /\ c.tool = "devices" =>
         IF c.origin.productKey # c.productKey
         THEN /\ c.result.status = "error"
              /\ c.reqs = <<>>
              /\ c.result.message # InvalidCursorMessage
         ELSE ~RejectedForCursor(c)

\* C5: a cursor minted by one listing is turned down, before any request, when
\* the other listing redeems it.
ClaimC5 ==
  \A p \in Procs :
    LET c == inv[p]
    IN c.pc # "idle" /\ c.origin.minted /\ c.origin.tool # c.tool =>
         /\ c.pc = "done"
         /\ c.result.status = "error"
         /\ c.reqs = <<>>

Undecodable(cursor) == cursor.t = "str" /\ decodeCursor(cursor.s).t = "throw"

NotBase64(tk) == atob(tk).t = "throw"
NotJson(tk) == ~NotBase64(tk) /\ JSONparse(atob(tk).s).t = "throw"
LacksPageField(tk) ==
  /\ ~NotBase64(tk) /\ ~NotJson(tk)
  /\ LET v == JSONparse(atob(tk).s)
     IN v.t # "obj" \/ ~HasMember(v.members, K_pageNo)
        \/ ~HasMember(v.members, K_pageSize)

\* C7: decodeCursor fails for every token that is not base64, or is base64 of
\* text that is not JSON, or is JSON without pageNo or pageSize.
ClaimC7 ==
  cx.op = "decoded" /\ cx.arg.t = "undef"
  /\ (NotBase64(cx.tok.s) \/ NotJson(cx.tok.s) \/ LacksPageField(cx.tok.s))
  => cx.out.t = "throw"

\* C8: every cursor decodeCursor returns has a pageNo and a pageSize that are
\* positive integers.
ClaimC8 ==
  cx.op = "decoded" /\ cx.out.t # "throw" =>
    /\ cx.out.t = "obj"
    /\ IsPositiveInteger(GetProp(cx.out, K_pageNo))
    /\ IsPositiveInteger(GetProp(cx.out, K_pageSize))

CursorKeys == {K_pageNo, K_pageSize, K_productKey, K_totalItems}

\* the same fields with the same values, absent fields absent in both
SameCursor(a, b) ==
  /\ a.t = "obj" /\ b.t = "obj"
  /\ \A i \in 1..Len(a.members) : a.members[i].k \in CursorKeys
  /\ \A k \in CursorKeys :
       /\ HasMember(a.members, k) <=> HasMember(b.members, k)
       /\ SameValue(Lookup(a.members, k), Lookup(b.members, k))

\* C9: for every valid cursor, encodeCursor returns a token and decodeCursor
\* of that token is the cursor, field for field.
ClaimC9 ==
  /\ cx.op \in {"encoded", "decoded"} /\ cx.arg.t = "obj" => cx.tok.t = "str"
  /\ cx.op = "decoded" /\ cx.arg.t = "obj" => SameCursor(cx.out, cx.arg)

\* calls a run over N items with page size dps takes
Need == IF N = 0 THEN 1 ELSE (N + dps - 1) \div dps

Min(a, b) == IF a < b THEN a ELSE b

\* C10: a run over the products of an upstream that answers every request, from
\* the call without a cursor on: the k-th call fetches page k, the calls return
\* the items once each and in order, every call but the last returns a
\* nextCursor, and the run ends with call max(1, ceil(N / pageSize)).
TheoremC10 ==
  chain.live /\ chain.clean /\ chain.tool = "products" =>
    /\ chain.calls <= Need
    /\ chain.pages = [k \in 1..chain.calls |-> Digits(k)]
    /\ chain.got = [i \in 1..Min(chain.calls * dps, N) |-> Item("products", <<>>, i)]
    /\ chain.cursors = [k \in 1..chain.calls |-> k < Need]
    /\ chain.finished = (chain.calls = Need)

WitnessC10 ==
  /\ chain.live /\ chain.clean /\ chain.tool = "products"
  /\ chain.finished /\ chain.calls >= 2 /\ N = chain.calls * dps

\* the pageSize the cursor of a call carries
CursorPageSize(cursor) == GetProp(decodeCursor(cursor.s), K_pageSize)

\* the pageSize the nextCursor of a finished call carries
NextPageSize(c) == GetProp(decodeCursor(c.result.nextCursor.s), K_pageSize)

\* C11: a call that redeems a cursor sends the cursor's pageSize, not the
\* default, with its primary and its lookahead request, and its nextCursor
\* carries that pageSize; in a run begun without a cursor every request and
\* every cursor carries the default page size.
TheoremC11 ==
  \A p \in Procs :
    LET c == inv[p]
    IN /\ c.pc # "idle" /\ CursorSupplied(c.cursor) /\ ~RejectedForCursor(c) =>
            /\ \A i \in 1..Len(c.reqs) :
                 c.reqs[i].pageSize = TemplateString(CursorPageSize(c.cursor))
            /\ HasNext(c) => SameValue(NextPageSize(c), CursorPageSize(c.cursor))
       /\ c.pc # "idle" /\ c.inChain =>
            /\ \A i \in 1..Len(c.reqs) : c.reqs[i].pageSize = Digits(dps)
            /\ HasNext(c) => SameValue(NextPageSize(c), Num(dps))

WitnessC11 ==
  \E p \in Procs :
    LET c == inv[p]
    IN /\ c.pc = "done" /\ CursorSupplied(c.cursor) /\ HasNext(c)
       /\ Len(c.reqs) = 2
       /\ ~SameValue(CursorPageSize(c.cursor), Num(dps))

\* C12: when the primary page holds fewer items than pageSize, none included,
\* the call issues no lookahead and returns the items of the primary page
\* without a nextCursor.
TheoremC12 ==
  \A p \in Procs :
    LET c == inv[p]
    IN /\ Len(c.primary) = 1 /\ ~TransportFailed(c.primary[1])
       /\ c.tool = "products" => c.primary[1].code = 200
       /\ IsNum(c.pageSize) /\ Len(c.primary[1].data) < NumValue(c.pageSize)
       => /\ c.pc = "done"
          /\ Len(c.reqs) = 1
          /\ c.lookahead = <<>>
          /\ c.result.status = "ok"
          /\ c.result.data = c.primary[1].data
          /\ c.result.nextCursor.t = "undef"

WitnessC12 ==
  \E p \in Procs :
    LET c == inv[p]
    IN /\ c.pc = "done" /\ c.result.status = "ok"
       /\ IsNum(c.pageSize) /\ NumValue(c.pageSize) = 2
       /\ Len(c.result.data) = 1

LookaheadRequests(c) == {i \in 1..Len(c.reqs) : c.reqs[i].kind = "lookahead"}

\* C13: a call issues its lookahead only after its primary fetch has come
\* back with a page, never while the primary is in flight, and once at most;
\* a call whose primary page is full issues the primary request and one
\* lookahead request, two page requests in all.
TheoremC13 ==
  \A p \in Procs :
    LET c == inv[p]
    IN /\ Cardinality(LookaheadRequests(c)) <= 1
       /\ c.pc \in {"idle", "login"} => c.reqs = <<>>
       /\ c.pc = "primary" => Len(c.reqs) = 1 /\ c.primary = <<>>
       /\ LookaheadRequests(c) # {} =>
            /\ Len(c.reqs) = 2
            /\ c.reqs[1].kind = "primary" /\ c.reqs[2].kind = "lookahead"
            /\ Len(c.primary) = 1 /\ ~TransportFailed(c.primary[1])
       /\ /\ Len(c.primary) = 1 /\ ~TransportFailed(c.primary[1])
          /\ c.tool = "products" => c.primary[1].code = 200
          /\ IsNum(c.pageSize) /\ Len(c.primary[1].data) = NumValue(c.pageSize)
          => /\ Len(c.reqs) = 2
             /\ c.reqs[1].kind = "primary" /\ c.reqs[2].kind = "lookahead"

WitnessC13 ==
  \E p \in Procs :
    LET c == inv[p]
    IN /\ c.pc = "lookahead" /\ Len(c.reqs) = 2
       /\ Len(c.primary) = 1 /\ Len(c.primary[1].data) >= 1

\* C14: the items a call returns are the items of its primary page, in
\* order, whatever the lookahead came back with.
TheoremC14 ==
  \A p \in Procs :
    LET c == inv[p]
    IN c.pc = "done" /\ c.result.status = "ok" =>
         /\ Len(c.primary) = 1
         /\ c.result.data = c.primary[1].data

WitnessC14 ==
  \E p \in Procs :
    LET c == inv[p]
    IN /\ c.pc = "done" /\ c.result.status = "ok"
       /\ Len(c.lookahead) = 1 /\ Len(c.lookahead[1].data) >= 1
       /\ Len(c.result.data) >= 1

\* the productKey the cursor of a call carries
CursorProductKey(cursor) == GetProp(decodeCursor(cursor.s), K_productKey)

\* the cursor of a devices call carries the key of another product
MismatchedScope(c) ==
  /\ c.tool = "devices"
  /\ CursorProductKey(c.cursor).t = "str"
  /\ CursorProductKey(c.cursor).s # <<>>
  /\ CursorProductKey(c.cursor).s # c.productKey

Issues(p) == Len(inv'[p].reqs) > Len(inv[p].reqs)

\* C16: whenever a call issues a page request, primary or lookahead, the
\* credential it sends is current: the time of the request is before the
\* expiry of the cached token, and the token sent is the cached one.
ClaimC16 ==
  [][\A p \in Procs :
       Issues(p) =>
         /\ now' < tokenExpiry'
         /\ SameValue(inv'[p].reqs[Len(inv'[p].reqs)].auth, accessToken')]_vars

OneHour == 60 * 60 * 1000

\* getAccessToken is entered in this step: the call leaves idle and is not
\* turned down for its cursor
EntersGetAccessToken(p) ==
  /\ inv[p].pc = "idle" /\ inv'[p].pc # "idle"
  /\ inv'[p].result.message # InvalidCursorMessage

\* C17, the steps: with a token cached and now < expiry getAccessToken
\* returns that token without a login request and leaves the cache alone;
\* otherwise it issues a login request, and when the login succeeds the new
\* token is cached with an expiry one hour later and returned.
StepC17(p) ==
  /\ EntersGetAccessToken(p) =>
       IF Truthy(accessToken) /\ now < tokenExpiry
       THEN /\ inv'[p].logins = 0
            /\ SameValue(inv'[p].token, accessToken)
            /\ accessToken' = accessToken /\ tokenExpiry' = tokenExpiry
       ELSE /\ inv'[p].pc = "login" /\ inv'[p].logins = 1
            /\ inv'[p].reqs = <<>> /\ inv'[p].token.t = "undef"
  /\ inv[p].pc = "login" /\ inv'[p].pc = "primary" =>
       /\ Truthy(accessToken')
       /\ SameValue(inv'[p].token, accessToken')
       /\ tokenExpiry' = now' + OneHour
  /\ inv[p].pc = "login" /\ inv'[p].pc # "primary" => tokenExpiry' = tokenExpiry

\* C17, the states: a call that got its token from the cache issued its
\* primary request before the expiry of the cache.
FromCacheCurrent ==
  \A p \in Procs :
    LET c == inv[p]
    IN c.pc # "idle" /\ c.logins = 0 /\ c.token.t = "str" =>
         /\ Len(c.reqs) >= 1
         /\ c.reqs[1].at < tokenExpiry

\* C17: getAccessToken returns the cached token without a request exactly
\* while a token is cached and now < expiry, logs in otherwise and caches the
\* new token for one hour; a token taken from the cache was current.
TheoremC17 == []FromCacheCurrent /\ [][\A p \in Procs : StepC17(p)]_vars

\* a later call is served from the cache after the clock has moved
WitnessC17 ==
  \E p \in Procs :
    LET c == inv[p]
    IN /\ c.pc = "primary" /\ c.logins = 0 /\ c.token.t = "str"
       /\ now = TokenTtl + TickStep
       /\ now < tokenExpiry

\* C18: a call of the tools, which pass the default page size (15 in the
\* handlers), returns as many records as the default page size at most,
\* whatever cursor string the caller supplies.
ClaimC18 ==
  \A p \in Procs :
    LET c == inv[p]
    IN c.pc = "done" /\ c.result.status = "ok" => Len(c.result.data) <= dps

\* every request of the call was answered with code 200 and the page
AnsweredWell(c) ==
  /\ Len(c.primary) = 1 /\ WellBehaved(c.primary[1])
  /\ \A i \in 1..Len(c.lookahead) : WellBehaved(c.lookahead[i])

\* what the cursors of the concurrent callers decode to
PairDecoded == [tok \in PairCursors \ {Undefined} |-> decodeCursor(tok.s)]

\* the page number and page size of a call, from its cursor or the defaults
AlonePageNo(c) ==
  IF CursorSupplied(c.cursor) THEN GetProp(PairDecoded[c.cursor], K_pageNo)
  ELSE Num(1)
AlonePageSize(c) ==
  IF CursorSupplied(c.cursor) THEN GetProp(PairDecoded[c.cursor], K_pageSize)
  ELSE Num(dps)

\* page k of the collection of the call, in pages of its page size
AlonePage(c, k) ==
  UpstreamPage(c.tool, c.productKey, Digits(k), Digits(NumValue(AlonePageSize(c))))

\* what the call returns when it runs alone: its page of the collection, and
\* a nextCursor when the page is full and the page after it holds an item
AloneResult(c) ==
  /\ c.result.status = "ok"
  /\ c.result.data = AlonePage(c, NumValue(AlonePageNo(c)))
  /\ HasNext(c) <=>
       /\ Len(AlonePage(c, NumValue(AlonePageNo(c)))) = NumValue(AlonePageSize(c))
       /\ AlonePage(c, NumValue(AlonePageNo(c)) + 1) # <<>>
  /\ HasNext(c) => SuccessorOf(c)

SameCall(c, d) ==
  /\ c.tool = d.tool /\ c.productKey = d.productKey
  /\ SameValue(c.cursor, d.cursor)

\* C19: of two callers whose invocations interleave, each gets the page and
\* the nextCursor its call returns when run alone, whenever the upstream
\* answered its requests; two calls with the same listing, product and
\* cursor, at the same time or one after the other, get the same result.
TheoremC19 ==
  /\ \A p \in Procs :
       inv[p].pc = "done" /\ AnsweredWell(inv[p]) => AloneResult(inv[p])
  /\ \A p, q \in Procs :
       /\ inv[p].pc = "done" /\ AnsweredWell(inv[p])
       /\ inv[q].pc = "done" /\ AnsweredWell(inv[q])
       /\ SameCall(inv[p], inv[q])
       => inv[p].result = inv[q].result

WitnessC19 ==
  /\ inv[1].pc = "done" /\ AnsweredWell(inv[1]) /\ HasNext(inv[1])
  /\ inv[2].pc = "done" /\ AnsweredWell(inv[2]) /\ HasNext(inv[2])
  /\ CursorSupplied(inv[1].cursor) /\ SameCall(inv[1], inv[2])
  /\ inv[1].logins = 1 /\ inv[2].logins = 1

\* the call waits for the network
Pending(p) == inv[p].pc \notin {"idle", "done"}

\* the call has resolved: with a page, or with one of the two errors
Settled(p) ==
  /\ inv[p].pc = "done"
  /\ \/ inv[p].result.status = "ok"
     \/ /\ inv[p].result.status = "error"
        /\ inv[p].result.message \in FetchMessages \cup {InvalidCursorMessage}

\* C20: when every request is answered or fails, a call that waits for the
\* network resolves in the end, with a page or with an error.
TheoremC20 == \A p \in Procs : Pending(p) ~> Settled(p)

WitnessC20 ==
  \E p \in Procs :
    /\ Settled(p) /\ Len(inv[p].lookahead) = 1 /\ inv[p].lookahead[1].net
    /\ inv[p].logins = 1

PagerMessages == FetchMessages \cup {InvalidCursorMessage}

\* C21: the tool handlers do not throw: every error of the pager (a cursor
\* turned down, a failed fetch, a failed login) comes back as a response
\* whose text is "Error: " and the pager's message, without nextCursor.
TheoremC21 ==
  \A p \in Procs :
    LET c == inv[p]
    IN /\ c.pc = "done" => ~ToolResponse(c.tool, c.result).threw
       /\ c.pc = "done" /\ c.result.status = "error" =>
            /\ c.result.message \in PagerMessages
            /\ ToolResponse(c.tool, c.result).text = <<"Error: ", c.result.message>>
            /\ ToolResponse(c.tool, c.result).records = <<>>
            /\ ToolResponse(c.tool, c.result).nextCursor.t = "undef"

WitnessC21 ==
  \E p \in Procs :
    LET c == inv[p]
    IN /\ c.pc = "done" /\ c.result.status = "error"
       /\ c.logins = 1 /\ c.reqs = <<>>

\* C22: the response of a tool carries a nextCursor exactly when the result
\* of the pager has one, and then it is that token; the caller goes on with
\* the cursor of the response.
TheoremC22 ==
  \A p \in Procs :
    LET c == inv[p]
    IN /\ c.pc = "done" /\ c.result.status = "ok" =>
            /\ ToolResponse(c.tool, c.result).nextCursor.t = "str" <=> HasNext(c)
            /\ HasNext(c) =>
                 SameValue(ToolResponse(c.tool, c.result).nextCursor, c.result.nextCursor)
       /\ c.pc = "done" /\ c.result.status = "error" =>
            ToolResponse(c.tool, c.result).nextCursor.t = "undef"

WitnessC22 ==
  \E p \in Procs :
    LET c == inv[p]
    IN /\ c.pc = "done" /\ c.result.status = "ok" /\ HasNext(c)
       /\ c.tool = "devices" /\ Len(c.result.data) = 2

\* C23: encodeCursor gives the same token for two cursors with the same
\* values of the same fields, in whatever order the fields were set, and the
\* same token each time it encodes a cursor.
ClaimC23 ==
  cx.op \in {"encoded", "decoded"} /\ cx.arg.t = "obj" =>
    /\ SameValue(encodeCursor(cx.arg), cx.tok)
    /\ SameValue(encodeCursor(Reversed(cx.arg)), cx.tok)

\* the token of every cursor of the codec's domain
TokenOf == [v \in CodecArgs |-> encodeCursor(v)]

\* C24: two cursors that differ in pageNo, pageSize, productKey or
\* totalItems, or in the presence of productKey or totalItems, never have the
\* same token.
TheoremC24 ==
  cx.op \in {"encoded", "decoded"} /\ cx.arg.t = "obj" /\ cx.tok.t = "str" =>
    \A v \in CodecArgs :
      SameValue(TokenOf[v], cx.tok) => SameCursor(v, cx.arg)

WitnessC24 ==
  /\ cx.op = "encoded" /\ cx.arg.t = "obj" /\ cx.tok.t = "str"
  /\ ~HasMember(cx.arg.members, K_productKey)
  /\ \E v \in CodecArgs :
       /\ HasMember(v.members, K_productKey)
       /\ \A k \in CursorKeys \ {K_productKey} :
            /\ HasMember(v.members, k) <=> HasMember(cx.arg.members, k)
            /\ SameValue(Lookup(v.members, k), Lookup(cx.arg.members, k))
       /\ TokenOf[v].t = "str" /\ TokenOf[v] # cx.tok

\* the tokens the login responses have carried so far
IssuedTokens == {TokenText(i) : i \in 1..issued}

\* getAccessToken has returned to the call
HoldsToken(c) ==
  c.pc \in {"primary", "lookahead"} \/ (c.pc = "done" /\ c.reqs # <<>>)

\* C25: concurrent calls of getAccessToken on a cold cache, the login
\* answering with a token whenever it answers: every call that gets a token
\* gets one a login response carried, never null or empty; and once a login
\* has answered, the cache holds a token of one of the responses and an
\* expiry later than the current time.
TheoremC25 ==
  /\ \A p \in Procs :
       HoldsToken(inv[p]) =>
         Truthy(inv[p].token) /\ inv[p].token \in IssuedTokens
  /\ issued > 0 => accessToken \in IssuedTokens /\ now < tokenExpiry
  /\ issued = 0 => ~Truthy(accessToken)

WitnessC25 ==
  /\ \A p \in Procs : HoldsToken(inv[p]) /\ inv[p].logins = 1
  /\ inv[1].token # inv[2].token
  /\ accessToken = inv[2].token
  /\ issued = 2

\* ------------------------------------- the two listings side by side

\* list_products_paginated and list_devices_paginated of product "A", each
\* called without a cursor, against an upstream that may answer anything
NextTwin ==
  \/ CallWith(1, "products", KeyA, Undefined)
  \/ CallWith(2, "devices", KeyA, Undefined)
  \/ \E p \in Procs :
       \/ \E r \in LoginResponses : LoginReturns(p, r)
       \/ \E r \in PendingResponses(p, "primary") : PrimaryReturns(p, r)
       \/ \E r \in PendingResponses(p, "lookahead") : LookaheadReturns(p, r)
       \/ Return(p)

SpecTwin == Init /\ [][NextTwin]_vars

\* the call of getAccessToken by p ends in this step, and it fails
LoginFailsNow(p) ==
  inv[p].pc = "login" /\ inv'[p].pc = "done"

\* C26: a call of getAccessToken that fails (the fetch rejected, a status
\* that is not OK, a body without access_token) leaves the cached token and
\* its expiry as they were; a token another call has cached stays.
ClaimC26 ==
  [][\A p \in Procs :
       LoginFailsNow(p) =>
         /\ Truthy(accessToken) => accessToken' = accessToken
         /\ ~Truthy(accessToken) => ~Truthy(accessToken')
         /\ tokenExpiry' = tokenExpiry]_vars

\* status, application code and number of records of an answer
Shape(r) ==
  [net |-> r.net, ok |-> r.ok, json |-> r.json, code |-> r.code,
   hasData |-> r.hasData, len |-> Len(r.data)]

Shapes(rs) == [i \in 1..Len(rs) |-> Shape(rs[i])]

\* a is a prefix of b
IsPrefix(a, b) == Len(a) <= Len(b) /\ a = SubSeq(b, 1, Len(a))

\* the two invocations have met the same answers, as far as each has read
SameAnswers(a, b) ==
  /\ a.pc = "done" /\ b.pc = "done"
  /\ Len(a.primary) = 1 /\ Len(b.primary) = 1
  /\ Shapes(a.primary) = Shapes(b.primary)
  /\ \/ IsPrefix(Shapes(a.lookahead), Shapes(b.lookahead))
     \/ IsPrefix(Shapes(b.lookahead), Shapes(a.lookahead))

\* C27: listProductsPaginated and listDevicesPaginated that meet the same
\* answers of the upstream end the same way: both fail, or both return the
\* same number of records with a nextCursor in both or in neither.
ClaimC27 ==
  SameAnswers(inv[1], inv[2]) =>
    /\ inv[1].result.status = inv[2].result.status
    /\ inv[1].result.status = "ok" =>
         /\ Len(inv[1].result.data) = Len(inv[2].result.data)
         /\ HasNext(inv[1]) <=> HasNext(inv[2])

\* getAccessToken was called and gave the invocation no token
LoginFailed(c) == c.logins = 1 /\ c.pc # "login" /\ ~Truthy(c.token)

\* C28: an invocation whose getAccessToken fails ends in the fetch error
\* without having issued a page request; every page request carries the token
\* getAccessToken returned; no invocation calls getAccessToken twice.
TheoremC28 ==
  \A p \in Procs :
    LET c == inv[p]
    IN /\ c.logins <= 1
       /\ LoginFailed(c) =>
            /\ c.pc = "done"
            /\ c.result = Rejected(FailMessage(c.tool))
            /\ c.reqs = <<>>
            /\ c.primary = <<>> /\ c.lookahead = <<>>
       /\ \A i \in 1..Len(c.reqs) :
            Truthy(c.token) /\ c.reqs[i].auth = c.token

WitnessC28 ==
  \E p \in Procs :
    /\ LoginFailed(inv[p])
    /\ inv[p].pc = "done"
    /\ accessToken.t = "undef"

\* ------------------------------------------- listProducts, listDevices

\* if (pageNo > 100) break; // Safety measure
PageCap == 100

\* a collection that fills more pages than the loop asks for
ManyItems == PageCap * MaxPageSize + 1

\* the messages of the errors the loop rethrows
AllLoginMessage == "Failed to get access token"

AllMessage(r) ==
  IF r.net THEN "fetch failed"
  ELSE IF ~r.ok THEN "HTTP status"
  ELSE IF ~r.json THEN "Unexpected token"
  ELSE "Unknown error"

\* the iteration throws: a rejected fetch, !response.ok, an unreadable body;
\* for products content.code !== 200 ends the loop the same way
AllFails(tool, r) ==
  r.net \/ ~r.ok \/ ~r.json \/ (tool = "products" /\ r.code # 200)

AllDone(c, result) == [c EXCEPT !.pc = "done", !.result = result]

\* AllCatch with the error thrown to the caller on every page
AllCatch_rethrow(c, message) == AllDone(c, Rejected(message))

\* catch (error) { if (pageNo === 1) throw error; break; } ... return all
AllCatch(c, message) ==
  IF c.pageNo = Num(1) THEN AllDone(c, Rejected(message))
  ELSE AllDone(c, Resolved(c.data, Undefined))

\* AllCapped with the test one page late
AllCapped_late(pageNo) == NumValue(pageNo) > PageCap + 1

\* if (pageNo > 100) break
AllCapped(pageNo) == NumValue(pageNo) > PageCap

\* the top of the loop: getAccessToken, answered from the cache or by a login
\* request, then the fetch of page pageNo
AllIteration(c) ==
  IF CacheValid
  THEN [c EXCEPT !.pc = "allFetch", !.token = accessToken, !.primary = <<>>,
          !.reqs = Append(@, PageRequest("all", c.tool, c.productKey,
                                         c.pageNo, c.pageSize, accessToken))]
  ELSE [c EXCEPT !.pc = "allLogin", !.token = Undefined, !.primary = <<>>,
                 !.logins = @ + 1]

\* pageNo++ is done: the cap, or the next iteration
AllNext(c) ==
  IF AllCapped(c.pageNo) THEN AllDone(c, Resolved(c.data, Undefined))
  ELSE AllIteration(c)

\* the page is pushed: if (content.data.length < pageSize) break; pageNo++
AllPushed(c, r) ==
  IF Len(r.data) < NumValue(c.pageSize)
  THEN AllDone(c, Resolved(c.data, Undefined))
  ELSE AllNext([c EXCEPT !.pageNo = PlusOne(@)])

\* the iteration after the answer of its fetch
AllAfterPage(c, r) ==
  IF AllFails(c.tool, r) THEN AllCatch(c, AllMessage(r))
  ELSE IF ~r.hasData \/ Len(r.data) = 0
  THEN AllDone(c, Resolved(c.data, Undefined))
  ELSE AllPushed([c EXCEPT !.data = @ \o r.data], r)

\* listProducts(env, pageSize) / listDevices(env, productKey, pageSize) up to
\* its first await that waits for the network
ListAll(p, tool, productKey) ==
  /\ inv[p].pc = "idle"
  /\ inv' = [inv EXCEPT ![p] =
       AllIteration([IdleInv EXCEPT !.tool = tool,
                                    !.productKey = ScopeOf(tool, productKey),
                                    !.pageNo = Num(1), !.pageSize = Num(dps)])]
  /\ UNCHANGED <<cx, N, dps, now, accessToken, tokenExpiry, issued, held, chain>>

\* getAccessToken of an iteration after its login request came back, and on
\* success the fetch of the page
AllLoginReturns(p, r) ==
  /\ inv[p].pc = "allLogin"
  /\ IF LoginFails(r)
     THEN /\ inv' = [inv EXCEPT ![p] = AllCatch(inv[p], AllLoginMessage)]
          /\ UNCHANGED <<accessToken, tokenExpiry, issued>>
     ELSE /\ accessToken' = r.token
          /\ IF ~Truthy(r.token)
             THEN /\ inv' = [inv EXCEPT ![p] = AllCatch(inv[p], AllLoginMessage)]
                  /\ UNCHANGED <<tokenExpiry, issued>>
             ELSE /\ tokenExpiry' = now + TokenTtl
                  /\ issued' = issued + 1
                  /\ inv' = [inv EXCEPT ![p].pc = "allFetch", ![p].token = r.token,
                       ![p].reqs = Append(@, PageRequest("all", inv[p].tool,
                          inv[p].productKey, inv[p].pageNo, inv[p].pageSize, r.token))]
  /\ UNCHANGED <<cx, N, dps, now, held, chain>>

\* the loop after the fetch of a page came back
AllPageReturns(p, r) ==
  /\ inv[p].pc = "allFetch"
  /\ inv' = [inv EXCEPT ![p] = AllAfterPage([inv[p] EXCEPT !.primary = <<r>>], r)]
  /\ UNCHANGED <<cx, N, dps, now, accessToken, tokenExpiry, issued, held, chain>>

\* the caller takes the list
AllReturn(p) ==
  /\ inv[p].pc = "done"
  /\ inv' = [inv EXCEPT ![p] = IdleInv]
  /\ UNCHANGED <<cx, N, dps, now, accessToken, tokenExpiry, issued, held, chain>>

InitAll ==
  /\ N \in (0..MaxItems) \cup {ManyItems}
  /\ dps \in 1..MaxPageSize
  /\ now = TokenTtl
  /\ accessToken = Null
  /\ tokenExpiry = 0
  /\ issued = 0
  /\ inv = [p \in Procs |-> IdleInv]
  /\ held = NoHeld
  /\ chain = NoChain
  /\ cx = NoCodec

AllLoginAnswered == \E r \in LoginResponses : AllLoginReturns(1, r)
AllPageAnswered == \E r \in PendingResponses(1, "allFetch") : AllPageReturns(1, r)

\* time passes during the runs over the small collections; the run up to the
\* cap is explored at one time of the clock
TickAll == N <= MaxItems /\ Tick

\* one caller of listProducts and listDevices, and the clock
NextAll ==
  \/ \E tool \in Tools : ListAll(1, tool, KeyA)
  \/ AllLoginAnswered
  \/ AllPageAnswered
  \/ AllReturn(1)
  \/ TickAll

\* every request is answered or fails
SpecAll ==
  /\ InitAll /\ [][NextAll]_vars
  /\ WF_vars(AllLoginAnswered)
  /\ WF_vars(AllPageAnswered)

\* the first n items of the collection of the listing
FirstItems(c, n) == [i \in 1..Min(n, N) |-> Item(c.tool, c.productKey, i)]

\* the loop of c has asked for pages 1, 2, 3, ... and for no more than the cap
PagesInOrder(c) ==
  /\ Len(c.reqs) <= PageCap
  /\ \A i \in 1..Len(c.reqs) :
       /\ c.reqs[i].pageNo = Digits(i)
       /\ c.reqs[i].pageSize = Digits(dps)

\* while the loop runs, every page it has read was a full page
OnlyFullPagesBefore(c) ==
  c.pc \in {"allLogin", "allFetch"} =>
    /\ NumValue(c.pageNo) <= PageCap
    /\ Len(c.reqs) \in {NumValue(c.pageNo) - 1, NumValue(c.pageNo)}
    /\ c.pc = "allFetch" => Len(c.reqs) = NumValue(c.pageNo)
    /\ c.data = FirstItems(c, (NumValue(c.pageNo) - 1) * dps)
    /\ Len(c.data) = (NumValue(c.pageNo) - 1) * dps

\* the list returned is no longer than the cap allows
AllBounded(c) ==
  /\ Len(c.data) <= PageCap * dps
  /\ c.pc = "done" /\ c.result.status = "ok" =>
       /\ c.result.data = c.data
       /\ Len(c.result.data) <= PageCap * dps
       /\ Len(c.result.data) <= Len(c.reqs) * dps

AllFailedAt(c) ==
  /\ c.pc = "done"
  /\ \/ ~Truthy(c.token)
     \/ Len(c.primary) = 1 /\ AllFails(c.tool, c.primary[1])

\* C30: a failure in the first iteration of listProducts or listDevices makes
\* the call fail; a failure in a later iteration makes it return the items of
\* the pages before, in order, as a plain list.
TheoremC30 ==
  LET c == inv[1]
  IN AllFailedAt(c) =>
       /\ c.pageNo = Num(1) => c.result.status = "error" /\ c.result.data = <<>>
       /\ c.pageNo # Num(1) =>
            /\ c.result = Resolved(FirstItems(c, (NumValue(c.pageNo) - 1) * dps),
                                   Undefined)
            /\ Len(c.result.data) = (NumValue(c.pageNo) - 1) * dps

WitnessC30 ==
  /\ AllFailedAt(inv[1])
  /\ inv[1].pageNo = Num(3)
  /\ inv[1].result.status = "ok"
  /\ Len(inv[1].result.data) = 2 * dps
  /\ inv[1].tool = "products"

====
